---- MODULE Spec2Model ----
(***************************************************************************)
(* Model of the Vec3<T> value type of MFCG (namespace mfcg, complete       *)
(* header, and namespace MFCG, minimal header), instantiated at T = int    *)
(* (typedef Vec3i).  int is a 32-bit two's-complement integer: + - * wrap  *)
(* modulo 2^32, 1/len is truncating integer division, and sqrt(int) is the *)
(* double square root converted back to int (truncated; the conversion of  *)
(* NaN is undefined and depends on the build).                             *)
(***************************************************************************)
EXTENDS Integers, Sequences, FiniteSets, TLC

VARIABLES a, b, orig, normalized, last, nanToInt

vars == <<a, b, orig, normalized, last, nanToInt>>

\* ---------------------------------------------------------------- bounds
\* the small input vectors have components in 0..MaxC that sum to at most MaxC
MaxC == 1

\* -------------------------------------------------- 32-bit int arithmetic
IntMax == 2147483647
IntMin == -IntMax - 1
W16 == 65536
W8 == 256

\* high and low 16-bit halves of the two's-complement representation
Hi(n) == (n \div W16) % W16
Lo(n) == n % W16

\* the signed int whose representation has the halves h, l
FromHL(h, l) == IF h >= 32768 THEN (h - W16) * W16 + l ELSE h * W16 + l

\* byte i (0 = least significant) of the two's-complement representation
Byte(n, i) ==
    CASE i = 0 -> n % W8
      [] i = 1 -> (n \div W8) % W8
      [] i = 2 -> (n \div W16) % W8
      [] i = 3 -> (n \div (W16 * W8)) % W8

\* int + int
IAdd(m, n) ==
    LET l == Lo(m) + Lo(n)
        h == Hi(m) + Hi(n) + (l \div W16)
    IN  FromHL(h % W16, l % W16)

\* int - int
ISub(m, n) ==
    LET l == Lo(m) - Lo(n)
        h == Hi(m) - Hi(n) + (l \div W16)
    IN  FromHL(h % W16, l % W16)

\* int * int : schoolbook product of the bytes, low 32 bits kept
IMul(m, n) ==
    LET c0 == Byte(m, 0) * Byte(n, 0)
        c1 == Byte(m, 0) * Byte(n, 1) + Byte(m, 1) * Byte(n, 0)
        c2 == Byte(m, 0) * Byte(n, 2) + Byte(m, 1) * Byte(n, 1)
              + Byte(m, 2) * Byte(n, 0)
        c3 == Byte(m, 0) * Byte(n, 3) + Byte(m, 1) * Byte(n, 2)
              + Byte(m, 2) * Byte(n, 1) + Byte(m, 3) * Byte(n, 0)
        l  == c0 + (c1 % W8) * W8
        h  == (l \div W16) + (c1 \div W8) + c2 + (c3 % W8) * W8
    IN  FromHL(h % W16, l % W16)

\* a division that rounds up instead of truncating
IDiv_ceil(m, n) == (m + n - 1) \div n

\* int / int, truncating toward zero (used with a positive divisor only)
IDiv(m, n) ==
    IF (m >= 0) = (n > 0) THEN (IF m >= 0 THEN m ELSE -m) \div (IF n > 0 THEN n ELSE -n)
    ELSE -((IF m >= 0 THEN m ELSE -m) \div (IF n > 0 THEN n ELSE -n))

\* floor of the square root of n >= 0 by bisection; lo*lo <= n < (hi+1)^2
RECURSIVE ISqrtIter(_, _, _)
ISqrtIter(n, lo, hi) ==
    IF lo = hi THEN lo
    ELSE LET mid == (lo + hi + 1) \div 2
         IN  IF mid * mid <= n THEN ISqrtIter(n, mid, hi)
             ELSE ISqrtIter(n, lo, mid - 1)

\* T(sqrt(n)) for T = int: the int is converted to double, the double root
\* is taken and truncated back to int.  For n < 0 the root is NaN and the
\* conversion is undefined: the build decides the outcome (nanToInt).
Sqrt(n) == IF n < 0 THEN nanToInt ELSE ISqrtIter(n, 0, 46340)

\* ------------------------------------------------------------ MFCG::Vec3
MFCG_Vec3_ctor0 == [x |-> 0, y |-> 0, z |-> 0]
\* a one-scalar constructor that forgets z
MFCG_Vec3_ctor1_noz(t) == [x |-> t, y |-> t, z |-> 0]
MFCG_Vec3_ctor1(t) == [x |-> t, y |-> t, z |-> t]
MFCG_Vec3_ctor3(_x, _y, _z) == [x |-> _x, y |-> _y, z |-> _z]

\* ------------------------------------------------------------ mfcg::Vec3
Vec3_ctor0 == [x |-> 0, y |-> 0, z |-> 0]
Vec3_ctor1(t) == [x |-> t, y |-> t, z |-> t]
Vec3_ctor3(_x, _y, _z) == [x |-> _x, y |-> _y, z |-> _z]

Vec3_magnitude(self) ==
    Sqrt(IAdd(IAdd(IMul(self.x, self.x), IMul(self.y, self.y)),
              IMul(self.z, self.z)))

Vec3_sqrMagnitude(self) ==
    IAdd(IAdd(IMul(self.x, self.x), IMul(self.y, self.y)),
         IMul(self.z, self.z))

\* a normalize that zeroes a vector of non-positive magnitude
Vec3_normalize_zeroing(self) ==
    LET len == Vec3_magnitude(self)
        lenInv == IF len > 0 THEN IDiv(1, len) ELSE 0
    IN  [x |-> IMul(self.x, lenInv),
         y |-> IMul(self.y, lenInv),
         z |-> IMul(self.z, lenInv)]

\* the receiver after self.normalize()
Vec3_normalize(self) ==
    LET len == Vec3_magnitude(self)
    IN  IF len > 0
        THEN LET lenInv == IDiv(1, len)
             IN  [x |-> IMul(self.x, lenInv),
                  y |-> IMul(self.y, lenInv),
                  z |-> IMul(self.z, lenInv)]
        ELSE self

\* a dot product with a sign slip in the last term
Vec3_dot_minus(self, v) ==
    ISub(IAdd(IMul(self.x, v.x), IMul(self.y, v.y)), IMul(self.z, v.z))

Vec3_dot(self, v) ==
    IAdd(IAdd(IMul(self.x, v.x), IMul(self.y, v.y)), IMul(self.z, v.z))

\* a cross product with a sign slip in the last component
Vec3_cross_plus(self, v) ==
    Vec3_ctor3(ISub(IMul(self.y, v.z), IMul(self.z, v.y)),
               ISub(IMul(self.z, v.x), IMul(self.x, v.z)),
               IAdd(IMul(self.x, v.y), IMul(self.y, v.x)))

Vec3_cross(self, v) ==
    Vec3_ctor3(ISub(IMul(self.y, v.z), IMul(self.z, v.y)),
               ISub(IMul(self.z, v.x), IMul(self.x, v.z)),
               ISub(IMul(self.x, v.y), IMul(self.y, v.x)))

Vec3_operator_plus(self, v) ==
    Vec3_ctor3(IAdd(self.x, v.x), IAdd(self.y, v.y), IAdd(self.z, v.z))

\* a subtraction with the operands exchanged
Vec3_operator_minus_swapped(self, v) ==
    Vec3_ctor3(ISub(v.x, self.x), ISub(v.y, self.y), ISub(v.z, self.z))

Vec3_operator_minus(self, v) ==
    Vec3_ctor3(ISub(self.x, v.x), ISub(self.y, v.y), ISub(self.z, v.z))

Vec3_operator_times(self, s) ==
    Vec3_ctor3(IMul(self.x, s), IMul(self.y, s), IMul(self.z, s))

\* ------------------------------------------------- mfcg:: free functions
magnitude(v) ==
    Sqrt(IAdd(IAdd(IMul(v.x, v.x), IMul(v.y, v.y)), IMul(v.z, v.z)))

sqrMagnitude(v) ==
    IAdd(IAdd(IMul(v.x, v.x), IMul(v.y, v.y)), IMul(v.z, v.z))

\* the argument after normalize(v)
normalize(v) ==
    LET len == magnitude(v)
    IN  IF len > 0
        THEN LET lenInv == IDiv(1, len)
             IN  [x |-> IMul(v.x, lenInv),
                  y |-> IMul(v.y, lenInv),
                  z |-> IMul(v.z, lenInv)]
        ELSE v

\* a free dot product that squares the first operand's z
dot_zz(u, v) ==
    IAdd(IAdd(IMul(u.x, v.x), IMul(u.y, v.y)), IMul(u.z, u.z))

dot(u, v) ==
    IAdd(IAdd(IMul(u.x, v.x), IMul(u.y, v.y)), IMul(u.z, v.z))

\* a free cross product whose second component has its terms exchanged
cross_second(u, v) ==
    Vec3_ctor3(ISub(IMul(u.y, v.z), IMul(u.z, v.y)),
               ISub(IMul(u.x, v.z), IMul(u.z, v.x)),
               ISub(IMul(u.x, v.y), IMul(u.y, v.x)))

cross(u, v) ==
    Vec3_ctor3(ISub(IMul(u.y, v.z), IMul(u.z, v.y)),
               ISub(IMul(u.z, v.x), IMul(u.x, v.z)),
               ISub(IMul(u.x, v.y), IMul(u.y, v.x)))

\* ---------------------------------------------------------------- inputs
Zero == [x |-> 0, y |-> 0, z |-> 0]

V(p, q, r) == [x |-> p, y |-> q, z |-> r]

Cube ==
    {v \in {V(p, q, r) : p \in 0..MaxC, q \in 0..MaxC, r \in 0..MaxC} :
        v.x + v.y + v.z <= MaxC}

\* the examples of the documentation and vectors at the edges of int
SpecialVecs ==
    { V(3, 4, 0), V(1, 2, 3), V(4, 5, 6), V(-2, 1, -2),
      V(65536, 65536, 0), V(46341, 0, 0), V(46340, 0, 0),
      V(IntMax, IntMin, 2) }

Vecs == Cube \cup SpecialVecs

Scalars == {-1, 2, IntMax}

\* outcomes of converting NaN to int: INT_MIN (x86 cvttsd2si), 0 (ARM fcvtzs)
NanOutcomes == {IntMin, 0}

Forms == {"method", "free"}
Namespaces == {"MFCG", "mfcg"}
Targets == {"a", "b"}

NoCall ==
    [op |-> "none", form |-> "none", target |-> "none", argS |-> 0,
     pre |-> Zero, retS |-> 0, retV |-> Zero]

Call(op, form, target, argS, pre, retS, retV) ==
    [op |-> op, form |-> form, target |-> target, argS |-> argS,
     pre |-> pre, retS |-> retS, retV |-> retV]

\* ----------------------------------------------------------------- state
Init ==
    /\ a \in Vecs
    /\ b \in Vecs
    /\ orig = [a |-> a, b |-> b]
    /\ normalized = {}
    /\ last = NoCall
    /\ nanToInt \in NanOutcomes

\* Vec3<int>() in either header
Ctor0(ns) ==
    /\ last' = Call("ctor0", ns, "none", 0, Zero, 0,
                    IF ns = "MFCG" THEN MFCG_Vec3_ctor0 ELSE Vec3_ctor0)
    /\ UNCHANGED <<a, b, orig, normalized, nanToInt>>

\* Vec3<int>(b.x) in either header
Ctor1(ns) ==
    /\ last' = Call("ctor1", ns, "none", 0, Zero, 0,
                    IF ns = "MFCG" THEN MFCG_Vec3_ctor1(b.x)
                    ELSE Vec3_ctor1(b.x))
    /\ UNCHANGED <<a, b, orig, normalized, nanToInt>>

\* Vec3<int>(a.x, a.y, b.z) in either header
Ctor3(ns) ==
    /\ last' = Call("ctor3", ns, "none", 0, Zero, 0,
                    IF ns = "MFCG" THEN MFCG_Vec3_ctor3(a.x, a.y, b.z)
                    ELSE Vec3_ctor3(a.x, a.y, b.z))
    /\ UNCHANGED <<a, b, orig, normalized, nanToInt>>

\* a.magnitude() / magnitude(a)
Magnitude(form) ==
    /\ last' = Call("magnitude", form, "a", 0, Zero,
                    IF form = "method" THEN Vec3_magnitude(a) ELSE magnitude(a),
                    Zero)
    /\ UNCHANGED <<a, b, orig, normalized, nanToInt>>

\* a sqrMagnitude that squares the components of the receiver in place
SqrMagnitude_inplace(form) ==
    /\ last' = Call("sqrMagnitude", form, "a", 0, Zero,
                    IF form = "method" THEN Vec3_sqrMagnitude(a)
                    ELSE sqrMagnitude(a),
                    Zero)
    /\ a' = [x |-> IMul(a.x, a.x), y |-> IMul(a.y, a.y), z |-> IMul(a.z, a.z)]
    /\ UNCHANGED <<b, orig, normalized, nanToInt>>

\* a.sqrMagnitude() / sqrMagnitude(a)
SqrMagnitude(form) ==
    /\ last' = Call("sqrMagnitude", form, "a", 0, Zero,
                    IF form = "method" THEN Vec3_sqrMagnitude(a)
                    ELSE sqrMagnitude(a),
                    Zero)
    /\ UNCHANGED <<a, b, orig, normalized, nanToInt>>

\* t.normalize() / normalize(t) for t one of the two vectors
Normalize(form, target) ==
    /\ IF target = "a"
       THEN /\ a' = (IF form = "method" THEN Vec3_normalize(a) ELSE normalize(a))
            /\ b' = b
            /\ last' = Call("normalize", form, target, 0, a, 0, Zero)
       ELSE /\ b' = (IF form = "method" THEN Vec3_normalize(b) ELSE normalize(b))
            /\ a' = a
            /\ last' = Call("normalize", form, target, 0, b, 0, Zero)
    /\ normalized' = normalized \cup {target}
    /\ UNCHANGED <<orig, nanToInt>>

\* a.dot(b) / dot(a, b)
Dot(form) ==
    /\ last' = Call("dot", form, "a", 0, Zero,
                    IF form = "method" THEN Vec3_dot(a, b) ELSE dot(a, b),
                    Zero)
    /\ UNCHANGED <<a, b, orig, normalized, nanToInt>>

\* a.cross(b) / cross(a, b)
Cross(form) ==
    /\ last' = Call("cross", form, "a", 0, Zero, 0,
                    IF form = "method" THEN Vec3_cross(a, b) ELSE cross(a, b))
    /\ UNCHANGED <<a, b, orig, normalized, nanToInt>>

\* a + b
Add ==
    /\ last' = Call("add", "method", "a", 0, Zero, 0, Vec3_operator_plus(a, b))
    /\ UNCHANGED <<a, b, orig, normalized, nanToInt>>

\* a - b
Sub ==
    /\ last' = Call("sub", "method", "a", 0, Zero, 0, Vec3_operator_minus(a, b))
    /\ UNCHANGED <<a, b, orig, normalized, nanToInt>>

\* a * s
Scale(s) ==
    /\ last' = Call("scale", "method", "a", s, Zero, 0, Vec3_operator_times(a, s))
    /\ UNCHANGED <<a, b, orig, normalized, nanToInt>>

Next ==
    \/ \E ns \in Namespaces : Ctor0(ns)
    \/ \E ns \in Namespaces : Ctor1(ns)
    \/ \E ns \in Namespaces : Ctor3(ns)
    \/ \E form \in Forms : Magnitude(form)
    \/ \E form \in Forms : SqrMagnitude(form)
    \/ \E form \in Forms, target \in Targets : Normalize(form, target)
    \/ \E form \in Forms : Dot(form)
    \/ \E form \in Forms : Cross(form)
    \/ Add
    \/ Sub
    \/ \E s \in Scalars : Scale(s)

Spec == Init /\ [][Next]_vars

\* the vector the last normalize call was applied to, as it is now
Tgt(t) == IF t = "a" THEN a ELSE b

\* ------------------------------------------------------------------- C1
\* C1: after normalize of a vector that is not (0,0,0), in either form, the
\* magnitude of the vector is 1.
C1_NormalizeGivesUnitMagnitude ==
    (last.op = "normalize" /\ last.pre # Zero)
        => /\ Vec3_magnitude(Tgt(last.target)) = 1
           /\ magnitude(Tgt(last.target)) = 1

\* ------------------------------------------------------------------- C2
\* C2: normalize of a vector whose magnitude is not strictly positive (the
\* zero vector in particular) leaves all three components unchanged, in the
\* method form and in the free-function form.
C2_ZeroMagnitudeNoOp ==
    last.op = "normalize"
        => /\ last.pre = Zero => Tgt(last.target) = Zero
           /\ Vec3_magnitude(last.pre) <= 0 => Tgt(last.target) = last.pre

C2_Witness ==
    /\ last.op = "normalize"
    /\ last.form = "free"
    /\ last.target = "b"
    /\ last.pre = Zero
    /\ b = Zero

\* ------------------------------------------------------------------- C3
\* C3: for magnitude, sqrMagnitude, dot, cross and normalize the method form
\* and the free-function form give the same result on the same operands; for
\* normalize, the same vector afterwards.
C3_MethodEqualsFree ==
    /\ last.op = "magnitude"
         => last.retS = (IF last.form = "method" THEN magnitude(a)
                         ELSE Vec3_magnitude(a))
    /\ last.op = "sqrMagnitude"
         => last.retS = (IF last.form = "method" THEN sqrMagnitude(a)
                         ELSE Vec3_sqrMagnitude(a))
    /\ last.op = "dot"
         => last.retS = (IF last.form = "method" THEN dot(a, b)
                         ELSE Vec3_dot(a, b))
    /\ last.op = "cross"
         => last.retV = (IF last.form = "method" THEN cross(a, b)
                         ELSE Vec3_cross(a, b))
    /\ last.op = "normalize"
         => Tgt(last.target) = (IF last.form = "method" THEN normalize(last.pre)
                                ELSE Vec3_normalize(last.pre))

C3_Witness ==
    /\ last.op = "dot"
    /\ last.form = "free"
    /\ a = V(1, 2, 3)
    /\ b = V(4, 5, 6)
    /\ last.retS = 32

\* ------------------------------------------------------------------- C4
\* C4: a + b, a - b and a * s return the componentwise sum, difference and
\* product by s (the int results, which are the mathematical ones whenever
\* those fit); (1,2,3) + (4,5,6) = (5,7,9), (1,2,3) - (4,5,6) = (-3,-3,-3).
C4_Arithmetic ==
    /\ last.op = "add"
         => /\ last.retV = V(IAdd(a.x, b.x), IAdd(a.y, b.y), IAdd(a.z, b.z))
            /\ \A f \in {"x", "y", "z"} :
                 (a[f] \in -1073741823..1073741823
                    /\ b[f] \in -1073741823..1073741823)
                   => last.retV[f] = a[f] + b[f]
            /\ (a = V(1, 2, 3) /\ b = V(4, 5, 6)) => last.retV = V(5, 7, 9)
    /\ last.op = "sub"
         => /\ last.retV = V(ISub(a.x, b.x), ISub(a.y, b.y), ISub(a.z, b.z))
            /\ \A f \in {"x", "y", "z"} :
                 (a[f] \in -1073741823..1073741823
                    /\ b[f] \in -1073741823..1073741823)
                   => last.retV[f] = a[f] - b[f]
            /\ (a = V(1, 2, 3) /\ b = V(4, 5, 6)) => last.retV = V(-3, -3, -3)
    /\ last.op = "scale"
         => /\ last.retV = V(IMul(a.x, last.argS), IMul(a.y, last.argS),
                             IMul(a.z, last.argS))
            /\ \A f \in {"x", "y", "z"} :
                 (a[f] \in -46340..46340 /\ last.argS \in -46340..46340)
                   => last.retV[f] = a[f] * last.argS

C4_Witness ==
    /\ last.op = "sub"
    /\ a = V(1, 2, 3)
    /\ b = V(4, 5, 6)
    /\ last.retV = V(-3, -3, -3)

\* ------------------------------------------------------------------- C5
\* C5: cross(a,b), method and free function, returns
\* (a.y*b.z - a.z*b.y, a.z*b.x - a.x*b.z, a.x*b.y - a.y*b.x);
\* (1,0,0) x (0,1,0) = (0,0,1) and (1,2,3) x (4,5,6) = (-3,6,-3).
C5_Cross ==
    last.op = "cross"
      => /\ last.retV = V(ISub(IMul(a.y, b.z), IMul(a.z, b.y)),
                          ISub(IMul(a.z, b.x), IMul(a.x, b.z)),
                          ISub(IMul(a.x, b.y), IMul(a.y, b.x)))
         /\ (\A f \in {"x", "y", "z"} :
                a[f] \in -16384..16384 /\ b[f] \in -16384..16384)
              => last.retV = V(a.y * b.z - a.z * b.y,
                               a.z * b.x - a.x * b.z,
                               a.x * b.y - a.y * b.x)
         /\ (a = V(1, 0, 0) /\ b = V(0, 1, 0)) => last.retV = V(0, 0, 1)
         /\ (a = V(1, 2, 3) /\ b = V(4, 5, 6)) => last.retV = V(-3, 6, -3)

C5_Witness ==
    /\ last.op = "cross"
    /\ last.form = "method"
    /\ a = V(1, 2, 3)
    /\ b = V(4, 5, 6)
    /\ last.retV = V(-3, 6, -3)

\* ------------------------------------------------------------------- C6
\* C6: a call of anything but normalize changes no vector, a call of
\* normalize changes at most the vector it is applied to, and so a vector
\* that was never normalized still has the components it was built with.
C6_Frame ==
    /\ [][/\ last'.op # "normalize" => (a' = a /\ b' = b)
          /\ last'.op = "normalize"
               => /\ last'.target = "a" => b' = b
                  /\ last'.target = "b" => a' = a]_vars
    /\ [](/\ "a" \notin normalized => a = orig.a
          /\ "b" \notin normalized => b = orig.b)

C6_Witness ==
    /\ last.op = "dot"
    /\ normalized = {"a"}
    /\ orig.a = V(3, 4, 0)
    /\ a = Zero
    /\ b = V(4, 5, 6)

\* ------------------------------------------------------------------- C7
\* C7: cross(a,b) equals cross(b,a) scaled by -1, component for component,
\* wrapped products included.
C7_AntiCommutative ==
    last.op = "cross"
      => /\ last.retV = Vec3_operator_times(Vec3_cross(b, a), -1)
         /\ last.retV = Vec3_operator_times(cross(b, a), -1)

C7_Witness ==
    /\ last.op = "cross"
    /\ a = V(IntMax, IntMin, 2)
    /\ b = V(4, 5, 6)
    /\ last.retV # Zero

\* ------------------------------------------------------------------- C8
\* C8: the cross product of a and b has dot product 0 with a and with b.
C8_Orthogonal ==
    last.op = "cross"
      => /\ Vec3_dot(a, last.retV) = 0
         /\ Vec3_dot(b, last.retV) = 0
         /\ dot(a, last.retV) = 0
         /\ dot(b, last.retV) = 0

C8_Witness ==
    /\ last.op = "cross"
    /\ a = V(3, 4, 0)
    /\ b = V(1, 2, 3)
    /\ last.retV = V(12, -9, 2)

\* ------------------------------------------------------------------- C9
\* C9: in both headers the default constructor gives (0,0,0), the
\* one-scalar constructor with t gives (t,t,t) and the three-scalar
\* constructor with x,y,z gives (x,y,z).
C9_Construction ==
    /\ last.op = "ctor0" => last.retV = V(0, 0, 0)
    /\ last.op = "ctor1" => last.retV = V(b.x, b.x, b.x)
    /\ last.op = "ctor3" => last.retV = V(a.x, a.y, b.z)

C9_Witness ==
    /\ last.op = "ctor3"
    /\ last.form = "MFCG"
    /\ a = V(1, 2, 3)
    /\ b = V(4, 5, 6)
    /\ last.retV = V(1, 2, 6)

====
